---- MODULE Spec2Model ----
(***************************************************************************)
(* Lumo-back: users, lists and tasks over a document store.                *)
(*                                                                         *)
(* The store is three collections (users, lists, tasks).  Every request    *)
(* handler is a sequence of store accesses, one per `await`; each access   *)
(* is one atomic step of the model, so that the states between two writes  *)
(* of one handler, and the interleavings of two handlers, are states of    *)
(* the model.  The arrival of a request is merged with its first access.   *)
(* req[p] is the request that handler slot p is serving: its position      *)
(* (pc), what it has read so far, the deletedCount of its deleteMany       *)
(* calls, and, once pc = "done", its response.                             *)
(***************************************************************************)
EXTENDS Integers, Sequences, FiniteSets, TLC

\* Bounds: how many ObjectIds each collection may hand out.
MaxUsers == 2
MaxLists == 2
MaxTasks == 1
\* How many Tasks the store of SpecOrder holds.
MaxOrdered == 3
\* How many steps the clock advances.
MaxTicks == 3

\* Program constants.
MaxTitleLen == 30
MaxDescriptionLen == 200
\* new Date("9999-12-31"), in days since 1970-01-01; due dates are days.
SentinelDate == 2932896
\* forgotPassword: Date.now() + 3600000
ResetTokenLifetime == 3600000
\* One step of the clock: half the lifetime of a reset token, so that a
\* request can run before, exactly at and after the expiry.
ClockStep == ResetTokenLifetime \div 2
Times == {k * ClockStep : k \in 0..MaxTicks}

UserIds == 1..MaxUsers
ListIds == 1..MaxLists
TaskIds == 1..MaxTasks

\* JavaScript's undefined: a field the request body does not carry.
Undef == "undefined"

\* JavaScript's null: a field the request body carries as null.
Null == "null"

\* Inputs the clients send.
EmailInputs == {"ana@x.io", "bob@x.io", "nomail", Undef}
PasswordInputs == {"Passw0rd!", "$2b$Fake0!", "weak", Undef}
\* The credentials of the requests of Spec, where lists and tasks vary.
PlainEmails == {"ana@x.io", "bob@x.io"}
OnePassword == {"Passw0rd!"}
\* The one account of the password reset flow.
OneEmail == {"ana@x.io"}
\* The password pairs of resetPassword: <<password, confirmPassword>>.
NewPasswordPairs == {<<"N3wPass!", "N3wPass!">>, <<"weak", "weak">>,
                     <<"N3wPass!", "weak">>, <<Undef, "N3wPass!">>,
                     <<"N3wPass!", Undef>>}
ListTitleInputs == {"Tasks", " Work", Undef, "a title of more than thirty chars"}

\* Task bodies: a field that is Undef (0 for an id or a date) is not in the body.
EmptyTaskBody == [title |-> Undef, description |-> Undef, status |-> Undef,
                  dueDate |-> 0, list |-> 0, user |-> 0]
CreateTaskBodies(a) ==
    {[EmptyTaskBody EXCEPT !.title = t, !.status = s, !.user = u] :
        t \in {"t1", Undef}, s \in {Undef, "bogus", Null},
        u \in {0} \cup (UserIds \ {a})}
UpdateTaskBodies(a) ==
    {[EmptyTaskBody EXCEPT !.title = "t2", !.description = "d1",
                           !.status = "done", !.dueDate = 1],
     [EmptyTaskBody EXCEPT !.title = ""],
     [EmptyTaskBody EXCEPT !.status = "bogus"],
     [EmptyTaskBody EXCEPT !.status = Null]}
    \cup {[EmptyTaskBody EXCEPT !.title = "t2", !.description = "d1",
                                !.status = "done", !.dueDate = 1,
                                !.user = u, !.list = l] :
             u \in UserIds \ {a}, l \in ListIds}

VARIABLES
    users,     \* set of [id, email, password, resetPasswordToken,
               \*         resetPasswordExpires]
    lists,     \* set of [id, title, user]
    tasks,     \* set of [id, title, description, status, dueDate, list, user]
    nextUser,  \* next fresh ObjectId of each collection
    nextList,
    nextTask,
    tokens,    \* user ids for which loginUser signed a session token
    now,       \* Date.now()
    usedResetTokens,  \* history: the tokens with which resetPassword has saved
    req        \* handler slot -> the request it serves

store == <<users, lists, tasks>>
ids == <<nextUser, nextList, nextTask>>
vars == <<users, lists, tasks, nextUser, nextList, nextTask, tokens, now, usedResetTokens, req>>

----
\* Strings

RECURSIVE TrimLeft(_)
TrimLeft(s) ==
    IF Len(s) > 0 /\ SubSeq(s, 1, 1) = " " THEN TrimLeft(SubSeq(s, 2, Len(s))) ELSE s

RECURSIVE TrimRight(_)
TrimRight(s) ==
    IF Len(s) > 0 /\ SubSeq(s, Len(s), Len(s)) = " "
    THEN TrimRight(SubSeq(s, 1, Len(s) - 1)) ELSE s

\* mongoose `trim: true`
Trim(s) == IF s = Undef THEN Undef ELSE TrimRight(TrimLeft(s))

StartsWith(s, prefix) ==
    Len(s) >= Len(prefix) /\ SubSeq(s, 1, Len(prefix)) = prefix

\* bcrypt.hash(p, 10): a string with the bcrypt prefix that only p matches.
BcryptHash(p) == "$2b$10$" \o p

\* bcrypt.compare(p, stored): false for anything that is not the hash of p.
BcryptCompare(p, stored) == stored = BcryptHash(p)

\* /^[^\s@]+@[^\s@]+\.[^\s@]+$/ on the inputs of the model
EmailMatches(e) == e \in {"ana@x.io", "bob@x.io"}

\* /^(?=.*[a-z])(?=.*[A-Z])(?=.*\d)(?=.*[\W_]).{8,}$/ on the inputs of the model
PasswordMatches(p) == p \in {"Passw0rd!", "$2b$Fake0!", "N3wPass!"}

----
\* Requests and responses

NoBody == [none |-> TRUE]

Idle == [op |-> "none", pc |-> "idle", actor |-> 0, target |-> 0,
         body |-> NoBody, deleted |-> 0, status |-> 0, msg |-> "",
         result |-> <<>>, auth |-> "none", mail |-> ""]

Procs == DOMAIN req

CanStart(p) == req[p].pc \in {"idle", "done"}

At(p, op, pc) == req[p].op = op /\ req[p].pc = pc

\* The Authorization headers of the requests: none, a string that is no
\* token of this server, or a token that loginUser signed for a user, within
\* its hour ("jwt") or past it ("expired").
AuthHeaders ==
    {[kind |-> k, id |-> 0] : k \in {"none", "garbage"}}
    \cup {[kind |-> k, id |-> a] : k \in {"jwt", "expired"}, a \in tokens}

\* Faulty variant: next() called whatever the header.
AuthenticateToken_acceptAll(h) == [status |-> 0, msg |-> ""]

\* authenticateToken: the response that ends the request, or status 0 when
\* next() is called with req.user = the decoded token.
AuthenticateToken(h) ==
    IF h.kind = "none" THEN [status |-> 401, msg |-> "Token missing"]
    ELSE IF h.kind # "jwt" THEN [status |-> 403, msg |-> "Invalid token"]
    ELSE [status |-> 0, msg |-> ""]

\* req.user.id of the requests that reach a handler behind authenticateToken.
Actors == {h.id : h \in {g \in AuthHeaders : AuthenticateToken(g).status = 0}}

\* A request of actor a (0: none) as its handler starts.
NewReq(op, pc, a, target) ==
    [Idle EXCEPT !.op = op, !.pc = pc, !.actor = a, !.target = target,
                 !.auth = IF a \in tokens THEN "jwt" ELSE "none"]

\* The routes of listRoutes and taskRoutes, all behind authenticateToken.
ProtectedOps == {"getUserLists", "getListTasks", "createList", "updateList",
                 "deleteList", "createTask", "updateTask", "deleteTask"}

\* res.status(status).json({message: msg})
Respond(r, status, msg) == [r EXCEPT !.pc = "done", !.status = status, !.msg = msg]

InternalError(r) == Respond(r, 500, "Internal server error, try again later")

----
\* Persistence gateway (GlobalDAO) and the schemas

NoError == [name |-> "none", code |-> 0, message |-> ""]
ValidationError(m) == [name |-> "ValidationError", code |-> 0, message |-> m]
DuplicateKey == [name |-> "MongoServerError", code |-> 11000, message |-> "E11000"]
NotFoundError == [name |-> "Error", code |-> 0, message |-> "Document not found"]
StoreError == [name |-> "MongoNetworkError", code |-> 0, message |-> "store failure"]

\* GlobalDAO.read: findById, and a throw when there is no document.
GlobalDAO_read(coll, id) ==
    LET found == {d \in coll : d.id = id}
    IN  [err |-> IF found = {} THEN NotFoundError ELSE NoError, docs |-> found]

\* ListSchema: the first validation error of a list with this title, or "".
ListTitleError(title) ==
    IF title = Undef \/ Trim(title) = "" THEN "A title is required"
    ELSE IF Len(Trim(title)) > MaxTitleLen
         THEN "The title cannot have more than 30 characters"
         ELSE ""

\* Faulty variant: the unique index missing.
ListIndexRefuses_noIndex(coll, id, title, user) == FALSE

\* ListSchema.index({title: 1, user: 1}, {unique: true}): whether the store
\* refuses a list (id, title, user) next to the lists it holds.
ListIndexRefuses(coll, id, title, user) ==
    \E l \in coll : l.id # id /\ l.title = title /\ l.user = user

\* GlobalDAO.create on the List model: validate, then insert under the index.
ListDAO_create(coll, id, data) ==
    LET doc == [id |-> id, title |-> Trim(data.title), user |-> data.user]
    IN  IF ListTitleError(data.title) # ""
        THEN [err |-> ValidationError(ListTitleError(data.title)), coll |-> coll]
        ELSE IF ListIndexRefuses(coll, id, doc.title, doc.user)
             THEN [err |-> DuplicateKey, coll |-> coll]
             ELSE [err |-> NoError, coll |-> coll \cup {doc}]

\* GlobalDAO.update on the List model: findByIdAndUpdate(id, updates) with
\* runValidators, and a throw when there is no document.  A field of
\* `updates` that is absent (Undef, 0) is left as it is.  A title that is
\* present as undefined is dropped from the update by a mongoose that omits
\* undefined keys and is written as null, which the required validator
\* refuses, by one that does not.
ListDAO_update(coll, id, updates, omitUndefined) ==
    LET found == {d \in coll : d.id = id}
        old == CHOOSE d \in found : TRUE
        new == [old EXCEPT
                  !.title = IF updates.title = Undef THEN @ ELSE Trim(updates.title),
                  !.user = IF updates.user = 0 THEN @ ELSE updates.user]
    IN  IF ListTitleError(updates.title) # "" /\ ~(updates.title = Undef /\ omitUndefined)
        THEN [err |-> ValidationError(ListTitleError(updates.title)), coll |-> coll]
        ELSE IF found = {}
             THEN [err |-> NotFoundError, coll |-> coll]
             ELSE IF ListIndexRefuses(coll, id, new.title, new.user)
                  THEN [err |-> DuplicateKey, coll |-> coll]
                  ELSE [err |-> NoError, coll |-> (coll \ {old}) \cup {new}]

\* GlobalDAO.delete: findByIdAndDelete, and a throw when there is no document.
GlobalDAO_delete(coll, id) ==
    LET found == {d \in coll : d.id = id}
    IN  [err |-> IF found = {} THEN NotFoundError ELSE NoError, coll |-> coll \ found]

----
\* ListController

\* The catch block of createList and updateList.
ListCatch(r, err) ==
    IF err.name = "ValidationError" THEN Respond(r, 400, err.message)
    ELSE IF err.code = 11000 THEN Respond(r, 409, "Ya existe una lista con ese titulo")
    ELSE InternalError(r)

\* Every protected handler starts with UserDAO.read(req.user.id): the request
\* of actor a arrives and reads the user; it goes on at pc `next`.
ReadActor(op, next, a, target, notFoundMsg) ==
    LET u == GlobalDAO_read(users, a)
        r == NewReq(op, next, a, target)
    IN  IF u.err # NoError THEN InternalError(r)
        ELSE IF u.docs = {} THEN Respond(r, 404, notFoundMsg)
        ELSE r

\* Faulty variant: the ownership check left out.
ReadOwned_noOwnerCheck(coll, r, next, notFoundMsg, forbiddenMsg) ==
    LET l == GlobalDAO_read(coll, r.target)
    IN  IF l.err # NoError THEN InternalError(r)
        ELSE IF l.docs = {} THEN Respond(r, 404, notFoundMsg)
        ELSE [r EXCEPT !.pc = next]

\* Faulty variant: the ownership check inverted (=== for !==).
ReadOwned_inverted(coll, r, next, notFoundMsg, forbiddenMsg) ==
    LET l == GlobalDAO_read(coll, r.target)
    IN  IF l.err # NoError THEN InternalError(r)
        ELSE IF l.docs = {} THEN Respond(r, 404, notFoundMsg)
        ELSE IF (CHOOSE d \in l.docs : TRUE).user = r.actor
             THEN Respond(r, 403, forbiddenMsg)
             ELSE [r EXCEPT !.pc = next]

\* The read of the document named by the request and the ownership check
\* that follows it in every handler that names a list or a task.
ReadOwned(coll, r, next, notFoundMsg, forbiddenMsg) ==
    LET l == GlobalDAO_read(coll, r.target)
    IN  IF l.err # NoError THEN InternalError(r)
        ELSE IF l.docs = {} THEN Respond(r, 404, notFoundMsg)
        ELSE IF (CHOOSE d \in l.docs : TRUE).user # r.actor
             THEN Respond(r, 403, forbiddenMsg)
             ELSE [r EXCEPT !.pc = next]

ReadOwnedList(r, next) ==
    ReadOwned(lists, r, next, "Lista no encontrada", "Accion prohibida")

CreateList_ReadUser(p) ==
    /\ CanStart(p)
    /\ nextList <= MaxLists
    /\ \E a \in Actors :
        req' = [req EXCEPT ![p] = ReadActor("createList", "create", a, 0, "User not found")]
    /\ UNCHANGED <<store, ids, tokens, now, usedResetTokens>>

\* The argument of this.dao.create in createList: {...req.body, user: userId}
CreateListData(body, userId) == [body EXCEPT !.user = userId]

CreateList_Create(p) ==
    /\ At(p, "createList", "create")
    /\ \E title \in ListTitleInputs, bodyUser \in {0} \cup (UserIds \ {req[p].actor}) :
        LET body == [title |-> title, user |-> bodyUser]
            data == CreateListData(body, req[p].actor)
            w == ListDAO_create(lists, nextList, data)
            r == [req[p] EXCEPT !.body = body]
        IN  /\ w.err = NoError => nextList <= MaxLists
            /\ lists' = w.coll
            /\ nextList' = IF w.err = NoError THEN nextList + 1 ELSE nextList
            /\ req' = [req EXCEPT ![p] =
                        IF w.err = NoError
                        THEN Respond([r EXCEPT !.target = nextList], 200,
                                     "Lista creada exitosamente")
                        ELSE ListCatch(r, w.err)]
    /\ UNCHANGED <<users, tasks, nextUser, nextTask, tokens, now, usedResetTokens>>

UpdateList_ReadUser(p) ==
    /\ CanStart(p)
    /\ \E a \in Actors, id \in ListIds :
        req' = [req EXCEPT ![p] =
                  ReadActor("updateList", "readList", a, id, "Usuario no encontrado")]
    /\ UNCHANGED <<store, ids, tokens, now, usedResetTokens>>

UpdateList_ReadList(p) ==
    /\ At(p, "updateList", "readList")
    /\ req' = [req EXCEPT ![p] = ReadOwnedList(req[p], "update")]
    /\ UNCHANGED <<store, ids, tokens, now, usedResetTokens>>

UpdateList_Update(p) ==
    /\ At(p, "updateList", "update")
    /\ \E title \in ListTitleInputs, bodyUser \in {0} \cup (UserIds \ {req[p].actor}),
          omitUndefined \in BOOLEAN :
        LET body == [title |-> title, user |-> bodyUser]
            updates == [title |-> body.title, user |-> 0]
            w == ListDAO_update(lists, req[p].target, updates, omitUndefined)
            r == [req[p] EXCEPT !.body = body]
        IN  /\ lists' = w.coll
            /\ req' = [req EXCEPT ![p] =
                        IF w.err = NoError
                        THEN Respond(r, 200, "Lista actualizada exitosamente")
                        ELSE ListCatch(r, w.err)]
    /\ UNCHANGED <<users, tasks, ids, tokens, now, usedResetTokens>>

DeleteList_ReadUser(p) ==
    /\ CanStart(p)
    /\ \E a \in Actors, id \in ListIds :
        req' = [req EXCEPT ![p] =
                  ReadActor("deleteList", "readList", a, id, "Usuario no encontrado")]
    /\ UNCHANGED <<store, ids, tokens, now, usedResetTokens>>

DeleteList_ReadList(p) ==
    /\ At(p, "deleteList", "readList")
    /\ req' = [req EXCEPT ![p] = ReadOwnedList(req[p], "delete")]
    /\ UNCHANGED <<store, ids, tokens, now, usedResetTokens>>

DeleteList_Delete(p) ==
    /\ At(p, "deleteList", "delete")
    /\ LET w == GlobalDAO_delete(lists, req[p].target)
       IN  /\ lists' = w.coll
           /\ req' = [req EXCEPT ![p] =
                       IF w.err = NoError
                       THEN Respond(req[p], 200, "Lista eliminada exitosamente")
                       ELSE InternalError(req[p])]
    /\ UNCHANGED <<users, tasks, ids, tokens, now, usedResetTokens>>

----
\* User model and UserDAO

\* UserSchema: the first validation error of these fields, or "".  A field
\* that is Undef is not validated on update; both are required on create.
UserFieldError(email, password, creating) ==
    IF creating /\ email = Undef THEN "El correo es requerido"
    ELSE IF email # Undef /\ ~EmailMatches(email) THEN "Inserte un email valido"
    ELSE IF creating /\ password = Undef THEN "La contrasena es requerida"
    ELSE IF password # Undef /\ ~PasswordMatches(password)
         THEN "La contrasena debe tener al menos 8 caracteres"
         ELSE ""

\* A field of a document that is not set; a set field f holds <<value>>.
Unset == <<>>

\* UserSchema.email unique: true
EmailIndexRefuses(coll, id, email) ==
    \E u \in coll : u.id # id /\ u.email = email

\* UserSchema.pre("save"): a modified password is stored hashed.
PreSave(password) == BcryptHash(password)

\* GlobalDAO.create on the User model.
UserDAO_create(coll, id, data) ==
    LET e == UserFieldError(data.email, data.password, TRUE)
        doc == [id |-> id, email |-> data.email, password |-> PreSave(data.password),
                resetPasswordToken |-> Unset, resetPasswordExpires |-> Unset]
    IN  IF e # "" THEN [err |-> ValidationError(e), coll |-> coll]
        ELSE IF EmailIndexRefuses(coll, id, data.email)
             THEN [err |-> DuplicateKey, coll |-> coll]
             ELSE [err |-> NoError, coll |-> coll \cup {doc}]

\* The write of GlobalDAO.update on the User model: findByIdAndUpdate(id, body)
\* with runValidators stores the fields of the body as they are.
UserDAO_update(coll, id, body) ==
    LET found == {d \in coll : d.id = id}
        old == CHOOSE d \in found : TRUE
        new == [old EXCEPT
                  !.email = IF body.email = Undef THEN @ ELSE body.email,
                  !.password = IF body.password = Undef THEN @ ELSE body.password]
        e == UserFieldError(body.email, body.password, FALSE)
    IN  IF e # "" THEN [err |-> ValidationError(e), coll |-> coll]
        ELSE IF found = {} THEN [err |-> NotFoundError, coll |-> coll]
        ELSE IF EmailIndexRefuses(coll, id, new.email)
             THEN [err |-> DuplicateKey, coll |-> coll]
             ELSE [err |-> NoError, coll |-> (coll \ {old}) \cup {new}]

\* UserSchema.post("findOneAndUpdate"): doc is the document the update
\* returned; a password without the bcrypt prefix is hashed and written by
\* doc.updateOne, a second write.
PostFindOneAndUpdate(coll, id, docPassword) ==
    IF docPassword # Undef /\ ~StartsWith(docPassword, "$2b$")
    THEN {IF d.id = id THEN [d EXCEPT !.password = BcryptHash(docPassword)] ELSE d
            : d \in coll}
    ELSE coll

\* UserDAO.findByEmail
FindByEmail(email) == {u \in users : u.email = email}

----
\* UserController

Falsy(x) == x = Undef \/ x = ""

UserCatch(r, err) ==
    IF err.name = "ValidationError" THEN Respond(r, 400, err.message)
    ELSE IF err.code = 11000 THEN Respond(r, 409, "Email ya registrado")
    ELSE InternalError(r)

\* registerUser up to its first write, this.dao.create({...rest, password}).
\* GlobalDAO.create(data) has no session parameter: the insert is not part
\* of the transaction of the session.
RegisterUser_CreateUser(p, emails, passwords) ==
    /\ CanStart(p)
    /\ nextUser <= MaxUsers
    /\ nextList <= MaxLists
    /\ \E email \in emails, password \in passwords, confirmPassword \in passwords :
        LET r == [NewReq("registerUser", "createList", 0, nextUser) EXCEPT !.body =
                    [email |-> email, password |-> password,
                     confirmPassword |-> confirmPassword]]
            w == UserDAO_create(users, nextUser, [email |-> email, password |-> password])
            checked == ~Falsy(password) /\ ~Falsy(confirmPassword)
                       /\ password = confirmPassword
        IN  /\ users' = IF checked THEN w.coll ELSE users
            /\ nextUser' = IF checked /\ w.err = NoError THEN nextUser + 1 ELSE nextUser
            /\ req' = [req EXCEPT ![p] =
                        IF Falsy(password) \/ Falsy(confirmPassword)
                        THEN Respond(r, 400, "Todos los campos son obligatorios")
                        ELSE IF password # confirmPassword
                        THEN Respond(r, 400, "Las contrasenas no coinciden")
                        ELSE IF w.err # NoError THEN UserCatch(r, w.err)
                        ELSE r]
    /\ UNCHANGED <<lists, tasks, nextList, nextTask, tokens, now, usedResetTokens>>

\* session.withTransaction aborting: the writes made with the session are
\* undone.  Neither insert was made with it, so the collections stay as they
\* are at the abort.
AbortTransaction(coll) == coll

\* registerUser: ListDAO.create({title: "Tasks", user: user._id}, {session}),
\* the second argument dropped by GlobalDAO.create; then 201.  The store may
\* also fail the insert, which the catch block turns into 500.
RegisterUser_CreateList(p) ==
    /\ At(p, "registerUser", "createList")
    /\ nextList <= MaxLists
    /\ \E fails \in BOOLEAN :
        LET w == IF fails THEN [err |-> StoreError, coll |-> lists]
                 ELSE ListDAO_create(lists, nextList,
                                     [title |-> "Tasks", user |-> req[p].target])
        IN  /\ lists' = w.coll
            /\ users' = IF w.err = NoError THEN users ELSE AbortTransaction(users)
            /\ nextList' = IF w.err = NoError THEN nextList + 1 ELSE nextList
            /\ req' = [req EXCEPT ![p] =
                        IF w.err = NoError THEN Respond(req[p], 201, "Registro exitoso")
                        ELSE UserCatch(req[p], w.err)]
    /\ UNCHANGED <<tasks, nextUser, nextTask, tokens, now, usedResetTokens>>

\* Faulty variant: an unknown email told apart from a wrong password.
LoginResponse_leaky(r, found) ==
    LET user == CHOOSE u \in found : TRUE
    IN  IF Falsy(r.body.email) \/ Falsy(r.body.password)
        THEN Respond(r, 400, "Email y contrasena requeridos")
        ELSE IF found = {}
        THEN Respond(r, 404, "Usuario no encontrado")
        ELSE IF ~BcryptCompare(r.body.password, user.password)
        THEN Respond(r, 401, "Email o contrasena son incorrectos")
        ELSE Respond([r EXCEPT !.target = user.id], 200, "token")

\* The response of loginUser to the body of r, `found` being what
\* findByEmail returned: 200 carries a token signed for target.
LoginResponse(r, found) ==
    LET user == CHOOSE u \in found : TRUE
    IN  IF Falsy(r.body.email) \/ Falsy(r.body.password)
        THEN Respond(r, 400, "Email y contrasena requeridos")
        ELSE IF found = {}
        THEN Respond(r, 401, "Email o contrasena son incorrectos")
        ELSE IF ~BcryptCompare(r.body.password, user.password)
        THEN Respond(r, 401, "Email o contrasena son incorrectos")
        ELSE Respond([r EXCEPT !.target = user.id], 200, "token")

\* loginUser: one read, then jwt.sign.
LoginUser(p, emails, passwords) ==
    /\ CanStart(p)
    /\ \E email \in emails, password \in passwords :
        LET r == [NewReq("loginUser", "done", 0, 0) EXCEPT !.body =
                    [email |-> email, password |-> password]]
            res == LoginResponse(r, FindByEmail(email))
        IN  /\ req' = [req EXCEPT ![p] = res]
            /\ tokens' = IF res.status = 200 THEN tokens \cup {res.target} ELSE tokens
    /\ UNCHANGED <<store, ids, now, usedResetTokens>>

\* updateUserProfile up to this.dao.read(userId).
UpdateUserProfile_ReadUser(p, emails, passwords) ==
    /\ CanStart(p)
    /\ \E a \in Actors, email \in emails \cup {Undef}, password \in passwords,
          confirmPassword \in passwords :
        LET r == [NewReq("updateUserProfile", "update", a, a) EXCEPT !.body =
                    [email |-> email, password |-> password,
                     confirmPassword |-> confirmPassword]]
            u == GlobalDAO_read(users, a)
        IN  req' = [req EXCEPT ![p] =
                      IF Falsy(confirmPassword)
                      THEN Respond(r, 400, "Todos los campos son requeridos")
                      ELSE IF password # confirmPassword
                      THEN Respond(r, 400, "Las contrasenas no coinciden")
                      ELSE IF u.err # NoError THEN InternalError(r)
                      ELSE IF u.docs = {} THEN Respond(r, 404, "Usuario no encontrado")
                      ELSE r]
    /\ UNCHANGED <<store, ids, tokens, now, usedResetTokens>>

\* this.dao.update(userId, req.body): the findByIdAndUpdate write.
UpdateUserProfile_Update(p) ==
    /\ At(p, "updateUserProfile", "update")
    /\ LET w == UserDAO_update(users, req[p].actor, req[p].body)
       IN  /\ users' = w.coll
           /\ req' = [req EXCEPT ![p] =
                       IF w.err = NoError THEN [req[p] EXCEPT !.pc = "postHook"]
                       ELSE UserCatch(req[p], w.err)]
    /\ UNCHANGED <<lists, tasks, ids, tokens, now, usedResetTokens>>

\* The post hook of that findByIdAndUpdate, then 200.
UpdateUserProfile_PostHook(p) ==
    /\ At(p, "updateUserProfile", "postHook")
    /\ users' = PostFindOneAndUpdate(users, req[p].actor, req[p].body.password)
    /\ req' = [req EXCEPT ![p] = Respond(req[p], 200, "Perfil exitosamente actualizado")]
    /\ UNCHANGED <<lists, tasks, ids, tokens, now, usedResetTokens>>

\* deleteUser up to this.dao.read(userId).
DeleteUser_ReadUser(p) ==
    /\ CanStart(p)
    /\ \E a \in Actors :
        req' = [req EXCEPT ![p] =
                  ReadActor("deleteUser", "deleteLists", a, a, "Usuario no encontrado")]
    /\ UNCHANGED <<store, ids, tokens, now, usedResetTokens>>

\* Faulty variant: the filter on _id instead of user.
DeleteManyByUser_byId(coll, userId) == {d \in coll : d.id # userId}

\* UserDAO.delete: List.deleteMany({user: userId})
DeleteManyByUser(coll, userId) == {d \in coll : d.user # userId}

\* Faulty variant: the User record removed first, the Lists left for later.
DeleteUser_DeleteLists_userFirst(p) ==
    /\ At(p, "deleteUser", "deleteLists")
    /\ users' = {d \in users : d.id # req[p].actor}
    /\ req' = [req EXCEPT ![p].pc = "deleteTasks"]
    /\ UNCHANGED <<lists, tasks, ids, tokens, now, usedResetTokens>>

DeleteUser_DeleteLists(p) ==
    /\ At(p, "deleteUser", "deleteLists")
    /\ lists' = DeleteManyByUser(lists, req[p].actor)
    /\ req' = [req EXCEPT ![p].pc = "deleteTasks",
                          ![p].deleted = @ + Cardinality(lists \ lists')]
    /\ UNCHANGED <<users, tasks, ids, tokens, now, usedResetTokens>>

\* UserDAO.delete: Task.deleteMany({user: userId})
DeleteUser_DeleteTasks(p) ==
    /\ At(p, "deleteUser", "deleteTasks")
    /\ tasks' = DeleteManyByUser(tasks, req[p].actor)
    /\ req' = [req EXCEPT ![p].pc = "deleteUser",
                          ![p].deleted = @ + Cardinality(tasks \ tasks')]
    /\ UNCHANGED <<users, lists, ids, tokens, now, usedResetTokens>>

\* UserDAO.delete: this.model.findByIdAndDelete(userId), whose null is
\* returned, not thrown; then 200.
FindByIdAndDelete(coll, id) == {d \in coll : d.id # id}

DeleteUser_DeleteUser(p) ==
    /\ At(p, "deleteUser", "deleteUser")
    /\ users' = FindByIdAndDelete(users, req[p].actor)
    /\ req' = [req EXCEPT ![p] = Respond(req[p], 200, "Perfil exitosamente borrado")]
    /\ UNCHANGED <<lists, tasks, ids, tokens, now, usedResetTokens>>

----
\* Password reset (UserController.forgotPassword, resetPassword)

\* jwt.sign({id: user._id}, secret, {expiresIn: "1h"}): the payload and the
\* time of issue (iat) determine the token.
JwtSign(userId, iat) == <<userId, iat>>

\* The :token parameters the clients send: every token that can be issued.
ResetTokenInputs == {JwtSign(u, t) : u \in UserIds, t \in Times}

ResetInternalError(r) == Respond(r, 500, "Internal server error")

\* document.save() of the modified paths of a document read earlier: the
\* fields of `changes` are written to the document of that _id.
SaveModified(coll, id, changes) ==
    {IF d.id = id
     THEN [f \in DOMAIN d |-> IF f \in DOMAIN changes THEN changes[f] ELSE d[f]]
     ELSE d : d \in coll}

\* forgotPassword up to this.dao.findByEmail(email).
ForgotPassword_FindByEmail(p, emails) ==
    /\ CanStart(p)
    /\ \E email \in emails \cup {Undef} :
        LET r == [NewReq("forgotPassword", "save", 0, 0) EXCEPT !.body =
                    [email |-> email, token |-> Unset]]
            found == FindByEmail(email)
            user == CHOOSE u \in found : TRUE
        IN  req' = [req EXCEPT ![p] =
                      IF Falsy(email) THEN Respond(r, 400, "Email es requerido")
                      ELSE IF found = {} THEN Respond(r, 404, "Usuario no encontrado")
                      ELSE [r EXCEPT !.target = user.id]]
    /\ UNCHANGED <<store, ids, tokens, now, usedResetTokens>>

\* forgotPassword: the token is signed, then token and Date.now() + 3600000
\* are set on the document and saved.
ForgotPassword_Save(p) ==
    /\ At(p, "forgotPassword", "save")
    /\ LET token == JwtSign(req[p].target, now)
           exists == \E u \in users : u.id = req[p].target
       IN  /\ users' = SaveModified(users, req[p].target,
                           [resetPasswordToken |-> <<token>>,
                            resetPasswordExpires |-> <<now + ResetTokenLifetime>>])
           /\ req' = [req EXCEPT ![p] =
                       IF exists
                       THEN [req[p] EXCEPT !.pc = "sendMail", !.body.token = <<token>>]
                       ELSE ResetInternalError(req[p])]
    /\ UNCHANGED <<lists, tasks, ids, tokens, now, usedResetTokens>>

\* sendMail resolves or throws (mailer.js rethrows the transport's error):
\* the request with the outcome of the dispatch noted in it.
SendMail(r, throws) == [r EXCEPT !.mail = IF throws THEN "failed" ELSE "sent"]

ForgotPassword_SendMail(p) ==
    /\ At(p, "forgotPassword", "sendMail")
    /\ \E throws \in BOOLEAN :
        req' = [req EXCEPT ![p] =
                  IF throws THEN ResetInternalError(SendMail(req[p], throws))
                  ELSE Respond(SendMail(req[p], throws), 200,
                               "Email de recuperar contrasena enviado")]
    /\ UNCHANGED <<store, ids, tokens, now, usedResetTokens>>

\* Faulty variant: the expiry not looked at.
FindByResetToken_noExpiry(coll, token, time) ==
    {u \in coll : u.resetPasswordToken = <<token>>}

\* Faulty variant: $gte for $gt.
FindByResetToken_gte(coll, token, time) ==
    {u \in coll : /\ u.resetPasswordToken = <<token>>
                  /\ u.resetPasswordExpires # Unset
                  /\ u.resetPasswordExpires[1] >= time}

\* findOne({resetPasswordToken: token, resetPasswordExpires: {$gt: Date.now()}})
FindByResetToken(coll, token, time) ==
    {u \in coll : /\ u.resetPasswordToken = <<token>>
                  /\ u.resetPasswordExpires # Unset
                  /\ u.resetPasswordExpires[1] > time}

\* The response of resetPassword before its save: the body checks, then the
\* lookup; r goes on to the save when a User was found.
ResetLookup(r, found) ==
    LET user == CHOOSE u \in found : TRUE
    IN  IF Falsy(r.body.password) \/ Falsy(r.body.confirmPassword)
        THEN Respond(r, 400, "Todos los campos son necesarios")
        ELSE IF r.body.password # r.body.confirmPassword
        THEN Respond(r, 400, "Las contrasenas no coinciden")
        ELSE IF found = {} THEN Respond(r, 400, "Token no valida o expirada")
        ELSE [r EXCEPT !.target = user.id]

\* resetPassword up to the findOne.
ResetPassword_FindOne(p, pairs) ==
    /\ CanStart(p)
    /\ \E token \in ResetTokenInputs, pair \in pairs :
        LET r == [NewReq("resetPassword", "save", 0, 0) EXCEPT !.body =
                    [token |-> token, password |-> pair[1],
                     confirmPassword |-> pair[2]]]
        IN  req' = [req EXCEPT ![p] =
                      ResetLookup(r, FindByResetToken(users, token, now))]
    /\ UNCHANGED <<store, ids, tokens, now, usedResetTokens>>

\* The changes resetPassword makes to the document it read: the password,
\* hashed by pre("save"), and the two reset fields unset.
ResetChanges(password) ==
    [password |-> PreSave(password),
     resetPasswordToken |-> Unset, resetPasswordExpires |-> Unset]

\* resetPassword: user.save(), which validates the new password first.
ResetPassword_Save(p) ==
    /\ At(p, "resetPassword", "save")
    /\ LET e == UserFieldError(Undef, req[p].body.password, FALSE)
           exists == \E u \in users : u.id = req[p].target
       IN  /\ users' = IF e # "" THEN users
                       ELSE SaveModified(users, req[p].target,
                                         ResetChanges(req[p].body.password))
           /\ req' = [req EXCEPT ![p] =
                       IF e # "" THEN Respond(req[p], 400, e)
                       ELSE IF ~exists THEN ResetInternalError(req[p])
                       ELSE [req[p] EXCEPT !.pc = "sendMail"]]
           /\ usedResetTokens' = IF e = "" /\ exists
                                 THEN usedResetTokens \cup {req[p].body.token}
                                 ELSE usedResetTokens
    /\ UNCHANGED <<lists, tasks, ids, tokens, now>>

\* Faulty variant: the error of the dispatch swallowed.
ResetPassword_SendMail_swallow(p) ==
    /\ At(p, "resetPassword", "sendMail")
    /\ \E throws \in BOOLEAN :
        req' = [req EXCEPT ![p] =
                  Respond(SendMail(req[p], throws), 200,
                          "Password has been reset successfully")]
    /\ UNCHANGED <<store, ids, tokens, now, usedResetTokens>>

\* resetPassword: the confirmation mail after the save, then 200; a throw of
\* sendMail lands in the catch block.
ResetPassword_SendMail(p) ==
    /\ At(p, "resetPassword", "sendMail")
    /\ \E throws \in BOOLEAN :
        req' = [req EXCEPT ![p] =
                  IF throws THEN ResetInternalError(SendMail(req[p], throws))
                  ELSE Respond(SendMail(req[p], throws), 200,
                               "Password has been reset successfully")]
    /\ UNCHANGED <<store, ids, tokens, now, usedResetTokens>>

\* Time passes.
Tick ==
    /\ now < MaxTicks * ClockStep
    /\ now' = now + ClockStep
    /\ UNCHANGED <<store, ids, tokens, usedResetTokens, req>>

----
\* Task model and TaskController

TaskStatuses == {"ongoing", "unassigned", "done"}

\* The validator of enum: ["ongoing", "unassigned", "done"].  It is not run
\* on undefined; null passes it in the mongoose versions whose validator is
\* `null == v || ...` and fails it in those whose validator is
\* `undefined === v || ...`.
EnumValidator(v, nullPasses) == (v = Null /\ nullPasses) \/ v \in TaskStatuses

\* TaskSchema: the first validation error of these fields, or "".
TaskFieldError(f, creating, nullPasses) ==
    IF (creating /\ f.title = Undef) \/ (f.title # Undef /\ Trim(f.title) = "")
    THEN "El titulo es requerido"
    ELSE IF f.title # Undef /\ Len(Trim(f.title)) > MaxTitleLen
    THEN "El titulo no puede tener mas de 30 caracteres"
    ELSE IF f.description # Undef /\ Len(Trim(f.description)) > MaxDescriptionLen
    THEN "La descripcion no puede tener mas de 200 caracteres"
    ELSE IF f.status # Undef /\ ~EnumValidator(f.status, nullPasses)
    THEN "not a valid enum value for path status"
    ELSE ""

\* GlobalDAO.create on the Task model; a status that is undefined defaults
\* to "unassigned".
TaskDAO_create(coll, id, data, nullPasses) ==
    LET e == TaskFieldError(data, TRUE, nullPasses)
        doc == [id |-> id, title |-> Trim(data.title),
                description |-> Trim(data.description),
                status |-> IF data.status = Undef THEN "unassigned" ELSE data.status,
                dueDate |-> data.dueDate, list |-> data.list, user |-> data.user]
    IN  IF e # "" THEN [err |-> ValidationError(e), coll |-> coll]
        ELSE [err |-> NoError, coll |-> coll \cup {doc}]

\* GlobalDAO.update on the Task model: findByIdAndUpdate(id, updates) with
\* runValidators sets the fields that `updates` carries.
TaskDAO_update(coll, id, updates, nullPasses) ==
    LET e == TaskFieldError(updates, FALSE, nullPasses)
        found == {d \in coll : d.id = id}
        old == CHOOSE d \in found : TRUE
        new == [old EXCEPT
                  !.title = IF updates.title = Undef THEN @ ELSE Trim(updates.title),
                  !.description = IF updates.description = Undef THEN @
                                  ELSE Trim(updates.description),
                  !.status = IF updates.status = Undef THEN @ ELSE updates.status,
                  !.dueDate = IF updates.dueDate = 0 THEN @ ELSE updates.dueDate,
                  !.list = IF updates.list = 0 THEN @ ELSE updates.list,
                  !.user = IF updates.user = 0 THEN @ ELSE updates.user]
    IN  IF e # "" THEN [err |-> ValidationError(e), coll |-> coll]
        ELSE IF found = {} THEN [err |-> NotFoundError, coll |-> coll]
        ELSE [err |-> NoError, coll |-> (coll \ {old}) \cup {new}]

\* The catch block of createTask and updateTask.
TaskCatch(r, err) ==
    IF err.name = "ValidationError" THEN Respond(r, 400, err.message)
    ELSE InternalError(r)

CreateTask_ReadUser(p) ==
    /\ CanStart(p)
    /\ nextTask <= MaxTasks
    /\ \E a \in Actors, listId \in ListIds :
        req' = [req EXCEPT ![p] =
                  ReadActor("createTask", "readList", a, listId, "User not found")]
    /\ UNCHANGED <<store, ids, tokens, now, usedResetTokens>>

\* Faulty variant: the comparison of list.user with userId left out.
CreateTask_ReadList_noOwnerCheck(p) ==
    /\ At(p, "createTask", "readList")
    /\ req' = [req EXCEPT ![p] =
                 ReadOwned_noOwnerCheck(lists, req[p], "create", "List not found",
                                        "Forbidden action")]
    /\ UNCHANGED <<store, ids, tokens, now, usedResetTokens>>

\* createTask: ListDAO.read(listId) and the comparison of list.user with userId.
CreateTask_ReadList(p) ==
    /\ At(p, "createTask", "readList")
    /\ req' = [req EXCEPT ![p] =
                 ReadOwned(lists, req[p], "create", "List not found", "Forbidden action")]
    /\ UNCHANGED <<store, ids, tokens, now, usedResetTokens>>

\* Faulty variant: the spread last, {list: listId, user: userId, ...req.body}.
CreateTaskData_bodyLast(body, listId, userId) ==
    [body EXCEPT !.list = IF body.list = 0 THEN listId ELSE @,
                 !.user = IF body.user = 0 THEN userId ELSE @]

\* The argument of this.dao.create in createTask:
\* {...req.body, list: listId, user: userId}
CreateTaskData(body, listId, userId) == [body EXCEPT !.list = listId, !.user = userId]

CreateTask_Create(p) ==
    /\ At(p, "createTask", "create")
    /\ nextTask <= MaxTasks
    /\ \E b \in CreateTaskBodies(req[p].actor), nullPasses \in BOOLEAN :
        LET body == [b EXCEPT !.list = req[p].target]
            data == CreateTaskData(body, req[p].target, req[p].actor)
            w == TaskDAO_create(tasks, nextTask, data, nullPasses)
            r == [req[p] EXCEPT !.body = body]
        IN  /\ tasks' = w.coll
            /\ nextTask' = IF w.err = NoError THEN nextTask + 1 ELSE nextTask
            /\ req' = [req EXCEPT ![p] =
                        IF w.err = NoError
                        THEN Respond([r EXCEPT !.target = nextTask], 200,
                                     "Task successfully created")
                        ELSE TaskCatch(r, w.err)]
    /\ UNCHANGED <<users, lists, nextUser, nextList, tokens, now, usedResetTokens>>

UpdateTask_ReadUser(p) ==
    /\ CanStart(p)
    /\ \E a \in Actors, id \in TaskIds :
        req' = [req EXCEPT ![p] =
                  ReadActor("updateTask", "readTask", a, id, "User not found")]
    /\ UNCHANGED <<store, ids, tokens, now, usedResetTokens>>

UpdateTask_ReadTask(p) ==
    /\ At(p, "updateTask", "readTask")
    /\ req' = [req EXCEPT ![p] =
                 ReadOwned(tasks, req[p], "update", "Task not found", "Forbidden action")]
    /\ UNCHANGED <<store, ids, tokens, now, usedResetTokens>>

\* Faulty variant: the whole body handed to the update.
AllowedFields_wholeBody(body) == body

\* The loop over allowedFields: the update carries title, description,
\* status and dueDate of the body, and nothing else of it.
AllowedFields(body) == [body EXCEPT !.list = 0, !.user = 0]

UpdateTask_Update(p) ==
    /\ At(p, "updateTask", "update")
    /\ \E body \in UpdateTaskBodies(req[p].actor), nullPasses \in BOOLEAN :
        LET w == TaskDAO_update(tasks, req[p].target, AllowedFields(body), nullPasses)
            r == [req[p] EXCEPT !.body = body]
        IN  /\ tasks' = w.coll
            /\ req' = [req EXCEPT ![p] =
                        IF w.err = NoError
                        THEN Respond(r, 200, "Task successfully updated")
                        ELSE TaskCatch(r, w.err)]
    /\ UNCHANGED <<users, lists, ids, tokens, now, usedResetTokens>>

DeleteTask_ReadUser(p) ==
    /\ CanStart(p)
    /\ \E a \in Actors, id \in TaskIds :
        req' = [req EXCEPT ![p] =
                  ReadActor("deleteTask", "readTask", a, id, "User not found")]
    /\ UNCHANGED <<store, ids, tokens, now, usedResetTokens>>

DeleteTask_ReadTask(p) ==
    /\ At(p, "deleteTask", "readTask")
    /\ req' = [req EXCEPT ![p] =
                 ReadOwned(tasks, req[p], "delete", "task not found", "Forbidden action")]
    /\ UNCHANGED <<store, ids, tokens, now, usedResetTokens>>

DeleteTask_Delete(p) ==
    /\ At(p, "deleteTask", "delete")
    /\ LET w == GlobalDAO_delete(tasks, req[p].target)
       IN  /\ tasks' = w.coll
           /\ req' = [req EXCEPT ![p] =
                       IF w.err = NoError
                       THEN Respond(req[p], 200, "Task successfully deleted")
                       ELSE InternalError(req[p])]
    /\ UNCHANGED <<users, lists, ids, tokens, now, usedResetTokens>>

\* TaskDAO.getTasksByListOrdered: $match {list: _id}
Match(coll, listId) == {t \in coll : t.list = listId}

\* $addFields statusOrder: the $switch on $status
StatusOrder(status) ==
    CASE status = "ongoing" -> 0
      [] status = "unassigned" -> 1
      [] status = "done" -> 2
      [] OTHER -> 3

\* $addFields _dueForSort: {$ifNull: ["$dueDate", new Date("9999-12-31")]};
\* dueDate 0 is a Task without a due date.
DueForSort(dueDate) == IF dueDate = 0 THEN SentinelDate ELSE dueDate

\* $sort {statusOrder: 1, _dueForSort: 1}: a may come before b.
SortKeyLeq(a, b) ==
    \/ StatusOrder(a.status) < StatusOrder(b.status)
    \/ /\ StatusOrder(a.status) = StatusOrder(b.status)
       /\ DueForSort(a.dueDate) <= DueForSort(b.dueDate)

\* The sequences that hold every element of S once.
Orderings(S) ==
    {s \in [1..Cardinality(S) -> S] : \A i, j \in DOMAIN s : s[i] = s[j] => i = j}

\* Faulty variant: a $match on the status added, so that done Tasks are left out.
GetTasksByListOrdered_filter(coll, listId) ==
    {s \in Orderings({t \in Match(coll, listId) : t.status # "done"}) :
        \A i, j \in DOMAIN s : i < j => SortKeyLeq(s[i], s[j])}

\* The results the aggregation can return: $sort orders by the two keys and
\* promises no order among documents whose keys are equal.  $project takes
\* the two added fields away again.
GetTasksByListOrdered(coll, listId) ==
    {s \in Orderings(Match(coll, listId)) :
        \A i, j \in DOMAIN s : i < j => SortKeyLeq(s[i], s[j])}

\* A request to a protected route that authenticateToken ends.
AuthenticateToken_Reject(p) ==
    /\ CanStart(p)
    /\ \E op \in ProtectedOps, h \in AuthHeaders :
        LET res == AuthenticateToken(h)
        IN  /\ res.status # 0
            /\ req' = [req EXCEPT ![p] =
                        Respond([NewReq(op, "done", 0, 0) EXCEPT !.auth = h.kind],
                                res.status, res.msg)]
    /\ UNCHANGED <<store, ids, tokens, now, usedResetTokens>>

\* Faulty variant: find({}) for find({user: userId}).
GetAllByUser_noFilter(coll, userId) == coll

\* GlobalDAO.getAll({user: userId}): the documents find(filter) matches.
GetAllByUser(coll, userId) == {d \in coll : d.user = userId}

\* ListController.getUserLists
GetUserLists_ReadUser(p) ==
    /\ CanStart(p)
    /\ \E a \in Actors :
        req' = [req EXCEPT ![p] =
                  ReadActor("getUserLists", "getAll", a, 0, "Usuario no encontrado")]
    /\ UNCHANGED <<store, ids, tokens, now, usedResetTokens>>

\* this.dao.getAll({user: userId}): a find without a sort.
GetUserLists_GetAll(p) ==
    /\ At(p, "getUserLists", "getAll")
    /\ \E found \in Orderings(GetAllByUser(lists, req[p].actor)) :
        req' = [req EXCEPT ![p] = Respond([req[p] EXCEPT !.result = found], 200, "lists")]
    /\ UNCHANGED <<store, ids, tokens, now, usedResetTokens>>

\* TaskController.getKanbanTasks
GetKanbanTasks_ReadUser(p) ==
    /\ CanStart(p)
    /\ \E a \in Actors :
        req' = [req EXCEPT ![p] =
                  ReadActor("getKanbanTasks", "getAll", a, 0, "Usuario no encontrado")]
    /\ UNCHANGED <<store, ids, tokens, now, usedResetTokens>>

\* tasks.filter((t) => t.status === status)
FilterByStatus(found, status) ==
    LET Has(t) == t.status = status IN SelectSeq(found, Has)

\* this.dao.getAll({user: userId}), a find without a sort, and the three
\* filters: the response is <<ongoingTasks, unassignedTasks, doneTasks>>.
GetKanbanTasks_GetAll(p) ==
    /\ At(p, "getKanbanTasks", "getAll")
    /\ \E found \in Orderings(GetAllByUser(tasks, req[p].actor)) :
        LET columns == <<FilterByStatus(found, "ongoing"),
                         FilterByStatus(found, "unassigned"),
                         FilterByStatus(found, "done")>>
        IN  req' = [req EXCEPT ![p] =
                      Respond([req[p] EXCEPT !.result = columns], 200, "kanban")]
    /\ UNCHANGED <<store, ids, tokens, now, usedResetTokens>>

\* ListController.getListTasks
GetListTasks_ReadUser(p) ==
    /\ CanStart(p)
    /\ \E a \in Actors, id \in ListIds :
        req' = [req EXCEPT ![p] =
                  ReadActor("getListTasks", "readList", a, id, "Usuario no encontrado")]
    /\ UNCHANGED <<store, ids, tokens, now, usedResetTokens>>

GetListTasks_ReadList(p) ==
    /\ At(p, "getListTasks", "readList")
    /\ req' = [req EXCEPT ![p] = ReadOwnedList(req[p], "aggregate")]
    /\ UNCHANGED <<store, ids, tokens, now, usedResetTokens>>

\* TaskDAO.getTasksByListOrdered(listId), then 200 with the tasks.
GetListTasks_Aggregate(p) ==
    /\ At(p, "getListTasks", "aggregate")
    /\ \E sorted \in GetTasksByListOrdered(tasks, req[p].target) :
        req' = [req EXCEPT ![p] = Respond([req[p] EXCEPT !.result = sorted], 200, "tasks")]
    /\ UNCHANGED <<store, ids, tokens, now, usedResetTokens>>

----
\* The system: sequential requests (Spec) and two concurrent ones (SpecConc)

InitStore ==
    /\ users = {} /\ lists = {} /\ tasks = {}
    /\ nextUser = 1 /\ nextList = 1 /\ nextTask = 1
    /\ tokens = {}
    /\ now = 0
    /\ usedResetTokens = {}

\* The handler slots: one request at a time, or two.
SeqProcs == {1}
ConcProcs == {1, 2}

Init == InitStore /\ req = [p \in SeqProcs |-> Idle]

InitConc == InitStore /\ req = [p \in ConcProcs |-> Idle]

\* The steps that go on with an account request in flight.
ContinueAccount(p) ==
    \/ RegisterUser_CreateList(p)
    \/ UpdateUserProfile_Update(p) \/ UpdateUserProfile_PostHook(p)
    \/ DeleteUser_DeleteLists(p) \/ DeleteUser_DeleteTasks(p) \/ DeleteUser_DeleteUser(p)

\* The steps that go on with a list or task request in flight.
ContinueOwnership(p) ==
    \/ CreateList_Create(p)
    \/ UpdateList_ReadList(p) \/ UpdateList_Update(p)
    \/ DeleteList_ReadList(p) \/ DeleteList_Delete(p)
    \/ GetListTasks_ReadList(p) \/ GetListTasks_Aggregate(p)
    \/ GetUserLists_GetAll(p) \/ GetKanbanTasks_GetAll(p)
    \/ CreateTask_ReadList(p) \/ CreateTask_Create(p)
    \/ UpdateTask_ReadTask(p) \/ UpdateTask_Update(p)
    \/ DeleteTask_ReadTask(p) \/ DeleteTask_Delete(p)

\* The arrivals of the list and task requests.
ArriveOwnership(p) ==
    \/ CreateList_ReadUser(p) \/ UpdateList_ReadUser(p) \/ DeleteList_ReadUser(p)
    \/ GetListTasks_ReadUser(p) \/ GetUserLists_ReadUser(p)
    \/ GetKanbanTasks_ReadUser(p)
    \/ AuthenticateToken_Reject(p)
    \/ CreateTask_ReadUser(p) \/ UpdateTask_ReadUser(p) \/ DeleteTask_ReadUser(p)

\* The arrivals of the account requests, with credentials drawn from sets.
ArriveAccount(p, emails, passwords) ==
    \/ RegisterUser_CreateUser(p, emails, passwords)
    \/ LoginUser(p, emails, passwords)
    \/ UpdateUserProfile_ReadUser(p, emails, passwords)
    \/ DeleteUser_ReadUser(p)

Next ==
    \E p \in SeqProcs :
        \/ ArriveAccount(p, PlainEmails, OnePassword) \/ ContinueAccount(p)
        \/ ArriveOwnership(p) \/ ContinueOwnership(p)

\* The account requests alone, over every credential input.
NextAccount ==
    \E p \in SeqProcs : ArriveAccount(p, EmailInputs, PasswordInputs) \/ ContinueAccount(p)

Spec == Init /\ [][Next]_vars

SpecAccount == Init /\ [][NextAccount]_vars

\* Two requests at a time on the lists: registration, login, createList and
\* updateList, whose steps interleave.
NextConcLists ==
    \E p \in ConcProcs :
        \/ RegisterUser_CreateUser(p, PlainEmails, OnePassword)
        \/ RegisterUser_CreateList(p)
        \/ LoginUser(p, PlainEmails, OnePassword)
        \/ CreateList_ReadUser(p) \/ CreateList_Create(p)
        \/ UpdateList_ReadUser(p) \/ UpdateList_ReadList(p) \/ UpdateList_Update(p)

SpecConcLists == InitConc /\ [][NextConcLists]_vars

\* The password of the concurrent account requests: given or not in the body.
GivenOrNot == {"Passw0rd!", Undef}

\* Two requests at a time on the accounts: registration, login and profile
\* update, whose steps interleave.
NextConcAccounts ==
    \E p \in ConcProcs :
        \/ RegisterUser_CreateUser(p, PlainEmails, GivenOrNot)
        \/ RegisterUser_CreateList(p)
        \/ LoginUser(p, PlainEmails, OnePassword)
        \/ UpdateUserProfile_ReadUser(p, PlainEmails, GivenOrNot)
        \/ UpdateUserProfile_Update(p) \/ UpdateUserProfile_PostHook(p)

SpecConcAccounts == InitConc /\ [][NextConcAccounts]_vars

\* Two requests at a time of one account: registration, login, deleteUser,
\* createList and createTask, whose steps interleave.
NextConcDelete ==
    \E p \in ConcProcs :
        \/ RegisterUser_CreateUser(p, OneEmail, OnePassword)
        \/ RegisterUser_CreateList(p)
        \/ LoginUser(p, OneEmail, OnePassword)
        \/ DeleteUser_ReadUser(p) \/ DeleteUser_DeleteLists(p)
        \/ DeleteUser_DeleteTasks(p) \/ DeleteUser_DeleteUser(p)
        \/ CreateList_ReadUser(p) \/ CreateList_Create(p)
        \/ CreateTask_ReadUser(p) \/ CreateTask_ReadList(p) \/ CreateTask_Create(p)

SpecConcDelete == InitConc /\ [][NextConcDelete]_vars

\* The password reset flow, one request at a time, while time passes.
NextReset ==
    \/ Tick
    \/ \E p \in SeqProcs :
        \/ RegisterUser_CreateUser(p, OneEmail, OnePassword)
        \/ RegisterUser_CreateList(p)
        \/ ForgotPassword_FindByEmail(p, PlainEmails)
        \/ ForgotPassword_Save(p) \/ ForgotPassword_SendMail(p)
        \/ ResetPassword_FindOne(p, NewPasswordPairs)
        \/ ResetPassword_Save(p) \/ ResetPassword_SendMail(p)

SpecReset == Init /\ [][NextReset]_vars

\* Two valid new passwords, each with its confirmation.
TwoNewPasswords == {<<"N3wPass!", "N3wPass!">>, <<"$2b$Fake0!", "$2b$Fake0!">>}

\* Two requests at a time of the password reset flow, whose steps interleave.
NextConcReset ==
    \E p \in ConcProcs :
        \/ RegisterUser_CreateUser(p, OneEmail, OnePassword)
        \/ RegisterUser_CreateList(p)
        \/ ForgotPassword_FindByEmail(p, OneEmail)
        \/ ForgotPassword_Save(p) \/ ForgotPassword_SendMail(p)
        \/ ResetPassword_FindOne(p, TwoNewPasswords)
        \/ ResetPassword_Save(p) \/ ResetPassword_SendMail(p)

SpecConcReset == InitConc /\ [][NextConcReset]_vars

\* The Tasks createTask and updateTask can have stored for one user with two
\* Lists: the _ids in insertion order, any status of the enum, with or
\* without a due date.
DueDateInputs == {0, 19723, 19875, SentinelDate + 1}
OrderedTaskSets ==
    UNION {{{[id |-> i, title |-> "t1", description |-> Undef, status |-> f[i].status,
              dueDate |-> f[i].dueDate, list |-> f[i].list, user |-> 1] : i \in 1..n} :
             f \in [1..n -> [status : TaskStatuses, dueDate : DueDateInputs,
                             list : ListIds]]} :
           n \in 0..MaxOrdered}

InitOrder ==
    /\ users = {[id |-> 1, email |-> "ana@x.io", password |-> BcryptHash("Passw0rd!"),
                 resetPasswordToken |-> Unset, resetPasswordExpires |-> Unset]}
    /\ lists = {[id |-> 1, title |-> "Tasks", user |-> 1],
                [id |-> 2, title |-> "Work", user |-> 1]}
    /\ tasks \in OrderedTaskSets
    /\ nextUser = 2 /\ nextList = 3 /\ nextTask = Cardinality(tasks) + 1
    /\ tokens = {1}
    /\ now = 0
    /\ usedResetTokens = {}
    /\ req = [p \in SeqProcs |-> Idle]

NextOrder ==
    \E p \in SeqProcs :
        \/ GetListTasks_ReadUser(p) \/ GetListTasks_ReadList(p)
        \/ GetListTasks_Aggregate(p)

SpecOrder == InitOrder /\ [][NextOrder]_vars

----
\* Properties

Ids(coll) == {d.id : d \in coll}
Done(p, op) == req[p].op = op /\ req[p].pc = "done"
InFlight(p) == req[p].pc \notin {"idle", "done"}

\* C1: once a registerUser request has finished, the User it inserted and a
\* list titled "Tasks" owned by that User either both exist or both do not.
C1_RegistrationAllOrNothing ==
    \A p \in Procs :
        Done(p, "registerUser") =>
            ((req[p].target \in Ids(users))
                <=> (\E l \in lists : l.user = req[p].target /\ l.title = "Tasks"))

\* C2: every Task whose parent List exists has the user of that List.
C2_TaskUserIsListUser ==
    \A t \in tasks : \A l \in lists : l.id = t.list => t.user = l.user

\* A createTask that carried a foreign `user` field has stored a Task in a
\* List that exists.
C2_Witness ==
    /\ Done(1, "createTask") /\ req[1].status = 200 /\ req[1].body.user # 0
    /\ \E t \in tasks : t.id = req[1].target /\ t.list \in Ids(lists)

\* The documents of coll' are those of coll, equal but for the fields the
\* relation `same` lets differ on the document `id`.
OnlyChanges(coll, collNext, id, same(_, _)) ==
    /\ Ids(collNext) = Ids(coll)
    /\ \A d \in coll : \E e \in collNext :
          /\ e.id = d.id
          /\ IF d.id = id THEN same(d, e) ELSE e = d

SameListButTitle(d, e) == e.user = d.user
SameTaskButFields(d, e) == e.user = d.user /\ e.list = d.list

\* C3: no step changes the user of a List or the user or list of a Task;
\* the write of updateList changes at most the title of its List, and the
\* write of updateTask at most title, description, status and dueDate of its
\* Task, whatever user or list the body names.
C3_OwnersImmutable ==
    [][/\ \A l \in lists : \A m \in lists' : m.id = l.id => m.user = l.user
       /\ \A t \in tasks : \A v \in tasks' :
             v.id = t.id => v.user = t.user /\ v.list = t.list
       /\ \A p \in Procs :
             /\ At(p, "updateList", "update") /\ req'[p].pc = "done"
                  => /\ OnlyChanges(lists, lists', req[p].target, SameListButTitle)
                     /\ users' = users /\ tasks' = tasks
             /\ At(p, "updateTask", "update") /\ req'[p].pc = "done"
                  => /\ OnlyChanges(tasks, tasks', req[p].target, SameTaskButFields)
                     /\ users' = users /\ lists' = lists]_vars

\* An updateTask whose body named another user and a list has succeeded.
C3_Witness ==
    /\ Done(1, "updateTask") /\ req[1].status = 200
    /\ req[1].body.user # 0 /\ req[1].body.list # 0
    /\ \E t \in tasks : t.id = req[1].target /\ t.title = "t2"

\* C4: when deleteUser has answered 200 (no other request interleaved), the
\* store holds no List and no Task of that user, and no User record of it.
C4_DeleteUserCascades ==
    \A p \in Procs :
        Done(p, "deleteUser") /\ req[p].status = 200 =>
            /\ \A l \in lists : l.user # req[p].actor
            /\ \A t \in tasks : t.user # req[p].actor
            /\ req[p].actor \notin Ids(users)

\* A deleteUser has answered 200 after its deleteMany calls removed two
\* documents, of which one only can be a List: one List was ever created.
C4_Witness ==
    Done(1, "deleteUser") /\ req[1].status = 200 /\ req[1].deleted >= 2 /\ nextList = 2

\* C5: between requests, every List names an existing User and every Task
\* names an existing List and an existing User.
C5_NoDanglingReferences ==
    (\A p \in Procs : ~InFlight(p)) =>
        /\ \A l \in lists : l.user \in Ids(users)
        /\ \A t \in tasks : t.list \in Ids(lists) /\ t.user \in Ids(users)

ForeignOps == {"updateList", "deleteList", "updateTask", "deleteTask"}
CollOf(op) == IF op \in {"updateTask", "deleteTask"} THEN tasks ELSE lists

\* The request r names a document that exists and belongs to another user.
NamesForeign(r) ==
    \E d \in CollOf(r.op) : d.id = r.target /\ d.user # r.actor

\* C7 as stated: every step of an updateList, deleteList, updateTask or
\* deleteTask of any actor holding a token, on a document of another user,
\* leaves the store as it is, and the request ends with 403.
C7_ForeignIs403_AnyActor ==
    [][\A p \in Procs :
          /\ req'[p] # req[p] /\ req'[p].op \in ForeignOps
          /\ NamesForeign(req'[p])
          => /\ UNCHANGED store
             /\ req'[p].pc = "done" => req'[p].status = 403]_vars

\* C7 amended: the same for every actor whose User record exists; and for
\* every actor holding a token, the store is left as it is and the request
\* never ends with 200.
C7_ForeignIs403 ==
    [][\A p \in Procs :
          /\ req'[p] # req[p] /\ req'[p].op \in ForeignOps
          /\ NamesForeign(req'[p])
          => /\ UNCHANGED store
             /\ req'[p].pc = "done" => req'[p].status # 200
             /\ req'[p].pc = "done" /\ req'[p].actor \in Ids(users)
                  => req'[p].status = 403]_vars

\* A deleteTask on a Task of another user has been answered 403, and the
\* Task is still there.
C7_Witness ==
    /\ Done(1, "deleteTask") /\ req[1].status = 403
    /\ NamesForeign(req[1]) /\ req[1].actor \in Ids(users)

NamingOps == {"updateList", "deleteList", "getListTasks", "createTask",
              "updateTask", "deleteTask"}

\* C8: the step of updateList, deleteList, getListTasks, createTask,
\* updateTask or deleteTask that reads the List or Task named by the request
\* (the actor's User record was read before) answers 404 and changes nothing
\* when the store holds no such document.
C8_MissingIs404 ==
    [][\A p \in Procs :
          /\ req[p].op \in NamingOps /\ req[p].pc \in {"readList", "readTask"}
          /\ req'[p] # req[p]
          /\ req[p].target \notin Ids(CollOf(req[p].op))
          => /\ UNCHANGED store
             /\ req'[p].pc = "done" /\ req'[p].status = 404]_vars

NoDuplicateTitles ==
    \A l \in lists : \A m \in lists :
        l.user = m.user /\ l.title = m.title => l.id = m.id

\* The store holds a List of this user and title other than the List `id`.
TitleTaken(id, user, title) ==
    \E l \in lists : l.id # id /\ l.user = user /\ l.title = title

\* C6: no User ever owns two Lists of one title, also with two requests
\* interleaved; the insert of createList with a title the actor's Lists
\* hold, and the write of updateList with the title of another List of the
\* owner, answer 409 and leave the store as it is; they answer 409 for no
\* other title, so that a title held by another owner alone is accepted.
C6_UniqueTitlePerOwner ==
    /\ []NoDuplicateTitles
    /\ [][\A p \in Procs :
             LET title == Trim(req'[p].body.title)
                 inserts == At(p, "createList", "create")
                 writes == At(p, "updateList", "update")
                 valid == ListTitleError(req'[p].body.title) = ""
                 owner == {l.user : l \in {m \in lists : m.id = req[p].target}}
             IN  /\ (inserts /\ req'[p].pc = "done" /\ valid
                        /\ TitleTaken(0, req[p].actor, title))
                    => (req'[p].status = 409 /\ UNCHANGED store)
                 /\ (writes /\ req'[p].pc = "done" /\ valid
                        /\ (\E u \in owner : TitleTaken(req[p].target, u, title)))
                    => (req'[p].status = 409 /\ UNCHANGED store)
                 /\ (inserts /\ req'[p].status = 409)
                    => TitleTaken(0, req[p].actor, title)
                 /\ (writes /\ req'[p].status = 409)
                    => \E u \in owner : TitleTaken(req[p].target, u, title)]_vars

\* Two createList requests of one actor with one title were in flight
\* together: one has answered 200 and the other 409, while a List of
\* another owner holds the same title.
C6_Witness ==
    /\ Done(1, "createList") /\ req[1].status = 200
    /\ Done(2, "createList") /\ req[2].status = 409
    /\ req[1].actor = req[2].actor
    /\ Trim(req[1].body.title) = Trim(req[2].body.title)
    /\ \E l \in lists : l.user # req[1].actor /\ l.title = Trim(req[1].body.title)

\* C9: every stored password is a bcrypt hash of a client password, never
\* the client's plaintext, in every state, the states between two writes of
\* one handler included.
C9_NeverPlaintext ==
    \A u \in users : \E p \in PasswordInputs \ {Undef} : u.password = BcryptHash(p)

LoginFailure == [status |-> 401, msg |-> "Email o contrasena son incorrectos"]

\* C10: loginUser answers an email no User holds and a known email with a
\* wrong password with one and the same status and message, and signs no
\* token for either.
C10_LoginIndistinguishable ==
    [][\A p \in Procs :
          req'[p] # req[p] /\ req'[p].op = "loginUser" =>
            LET b == req'[p].body
                found == FindByEmail(b.email)
                unknown == found = {}
                wrong == \E u \in found : ~BcryptCompare(b.password, u.password)
            IN  ~Falsy(b.email) /\ ~Falsy(b.password) /\ (unknown \/ wrong)
                => /\ [status |-> req'[p].status, msg |-> req'[p].msg] = LoginFailure
                   /\ req'[p].target = 0
                   /\ tokens' = tokens]_vars

\* A login with the email of a User and a password that is not that User's
\* has been answered 401.
C10_Witness ==
    /\ Done(1, "loginUser") /\ req[1].status = 401
    /\ \E u \in users :
          /\ u.email = req[1].body.email
          /\ ~BcryptCompare(req[1].body.password, u.password)

----
\* Password reset properties

InvalidOrExpired == [status |-> 400, msg |-> "Token no valida o expirada"]
Response(r) == [status |-> r.status, msg |-> r.msg]

\* Handler slot p takes a new resetPassword request in this step.
ResetArrives(p) ==
    CanStart(p) /\ req'[p] # req[p] /\ req'[p].op = "resetPassword"

\* The Users whose stored reset token is k.
Holders(k) == {u \in users : u.resetPasswordToken = <<k>>}

\* No User holds k, or the stored expiry of its holder is not later than now.
TokenRefused(k) ==
    \A u \in Holders(k) :
        u.resetPasswordExpires = Unset \/ u.resetPasswordExpires[1] <= now

PairGiven(b) ==
    ~Falsy(b.password) /\ ~Falsy(b.confirmPassword) /\ b.password = b.confirmPassword

\* C11 as stated: whatever the body, a resetPassword whose token no User
\* holds or whose stored expiry has passed answers 400 with the generic
\* message and leaves every User as it is.
C11_RefusedTokenGeneric_AnyBody ==
    [][\A p \in Procs :
          ResetArrives(p) /\ TokenRefused(req'[p].body.token)
          => /\ req'[p].pc = "done"
             /\ Response(req'[p]) = InvalidOrExpired
             /\ users' = users]_vars

\* C11, amended: with a password and an equal confirmation in the body,
\* such a resetPassword answers 400 with the generic message; with any body
\* it answers 400 and leaves every User as it is.
C11_RefusedTokenGeneric ==
    [][\A p \in Procs :
          ResetArrives(p) /\ TokenRefused(req'[p].body.token)
          => /\ req'[p].pc = "done" /\ req'[p].status = 400
             /\ users' = users
             /\ PairGiven(req'[p].body) => Response(req'[p]) = InvalidOrExpired]_vars

\* A resetPassword with the token a User holds, past its expiry, has been
\* answered with the generic message.
C11_Witness ==
    /\ Done(1, "resetPassword") /\ Response(req[1]) = InvalidOrExpired
    /\ \E u \in Holders(req[1].body.token) : u.resetPasswordExpires[1] <= now

\* C12: the save of resetPassword clears resetPasswordToken and
\* resetPasswordExpires together with the new password, and every later
\* resetPassword with a token that has been used fails with the generic
\* response and changes no User.
C12_TokenSingleUse ==
    [][\A p \in Procs :
          /\ (At(p, "resetPassword", "save") /\ users' # users)
             => \A u \in users' : u.id = req[p].target =>
                   /\ u.resetPasswordToken = Unset
                   /\ u.resetPasswordExpires = Unset
                   /\ u.password = BcryptHash(req[p].body.password)
          /\ (ResetArrives(p) /\ req'[p].body.token \in usedResetTokens
                /\ PairGiven(req'[p].body))
             => /\ req'[p].pc = "done"
                /\ Response(req'[p]) = InvalidOrExpired
                /\ users' = users]_vars

\* C13: a stored reset token was issued at its iat and expires one hour
\* later; resetPassword with the token a User holds and a valid password
\* pair goes on to replace the credential at every time before the expiry
\* (and answers 200 unless the mailer throws), and is refused with the
\* generic response at every time from the expiry on.
C13_TokenLivesOneHour ==
    /\ [](\A u \in users : u.resetPasswordToken # Unset =>
             /\ u.resetPasswordToken[1][1] = u.id
             /\ u.resetPasswordExpires
                  = <<u.resetPasswordToken[1][2] + ResetTokenLifetime>>)
    /\ [][\A p \in Procs :
             /\ (At(p, "forgotPassword", "save") /\ users' # users)
                => \A u \in users' : u.id = req[p].target =>
                      /\ u.resetPasswordToken = <<JwtSign(u.id, now)>>
                      /\ u.resetPasswordExpires = <<now + ResetTokenLifetime>>
             /\ (ResetArrives(p) /\ Holders(req'[p].body.token) # {}
                   /\ PairGiven(req'[p].body) /\ PasswordMatches(req'[p].body.password))
                => LET k == req'[p].body.token
                   IN  IF now < k[2] + ResetTokenLifetime
                       THEN /\ req'[p].pc = "save"
                            /\ req'[p].target = k[1]
                       ELSE /\ req'[p].pc = "done"
                            /\ Response(req'[p]) = InvalidOrExpired
                            /\ users' = users
             /\ (At(p, "resetPassword", "save") /\ req'[p] # req[p]
                   /\ PasswordMatches(req[p].body.password))
                => /\ req'[p].pc = "sendMail"
                   /\ \E u \in users' : /\ u.id = req[p].target
                                        /\ u.password = BcryptHash(req[p].body.password)
             /\ (At(p, "resetPassword", "sendMail") /\ req'[p] # req[p])
                => req'[p].status \in {200, 500}]_vars

\* A resetPassword has answered 200 after time has passed since the issue of
\* its token, before the hour was over.
C13_Witness ==
    /\ Done(1, "resetPassword") /\ req[1].status = 200
    /\ now > req[1].body.token[2]
    /\ now < req[1].body.token[2] + ResetTokenLifetime

----
\* Task ordering properties

\* The response of a getListTasks that has answered 200.
Listed(p) == Done(p, "getListTasks") /\ req[p].status = 200

Bucket(t) ==
    IF t.status = "ongoing" THEN 0
    ELSE IF t.status = "unassigned" THEN 1
    ELSE IF t.status = "done" THEN 2 ELSE 3

\* a's due date is not later than b's, a Task without a due date being later
\* than every Task that has one.
DueLeq(a, b) == b.dueDate = 0 \/ (a.dueDate # 0 /\ a.dueDate <= b.dueDate)

\* C14: of two returned tasks the earlier one has the lower bucket or, in
\* the same bucket, a due date that is not later, no due date being later
\* than every due date.
C14_OrderedByBucketThenDue ==
    \A p \in Procs : Listed(p) =>
        LET s == req[p].result
        IN  \A i, j \in DOMAIN s : i < j =>
               \/ Bucket(s[i]) < Bucket(s[j])
               \/ Bucket(s[i]) = Bucket(s[j]) /\ DueLeq(s[i], s[j])

\* C15: the result holds each Task of the list once and nothing else, and
\* the steps of getListTasks leave the store as it is.
C15_ResultIsPermutation ==
    /\ [](\A p \in Procs : Listed(p) =>
             LET s == req[p].result
             IN  /\ {s[i] : i \in DOMAIN s} = {t \in tasks : t.list = req[p].target}
                 /\ \A i, j \in DOMAIN s : s[i] = s[j] => i = j)
    /\ [][\A p \in Procs :
             req'[p] # req[p] /\ req'[p].op = "getListTasks" => UNCHANGED store]_vars

\* Two Tasks of a list, one done and one ongoing, one of them without a due
\* date, have been returned while the other list holds a Task too.
C15_Witness ==
    /\ Listed(1) /\ Len(req[1].result) = 2
    /\ \E t \in tasks : t.list # req[1].target
    /\ {req[1].result[i].status : i \in 1..2} = {"done", "ongoing"}
    /\ \E i \in 1..2 : req[1].result[i].dueDate = 0

\* C16: two returned tasks with the same bucket and the same due date (or
\* both without one) are in the order of their insertion.
C16_StableOrder ==
    \A p \in Procs : Listed(p) =>
        LET s == req[p].result
        IN  \A i, j \in DOMAIN s :
               i < j /\ Bucket(s[i]) = Bucket(s[j]) /\ s[i].dueDate = s[j].dueDate
               => s[i].id < s[j].id

----
\* Authentication boundary

\* authenticateToken has ended the request r: 401 without a token, 403 with
\* one that does not verify; no handler has run.
Rejected(r) ==
    /\ r.pc = "done" /\ r.actor = 0 /\ r.result = <<>>
    /\ \/ r.auth = "none" /\ r.status = 401 /\ r.msg = "Token missing"
       \/ r.auth \in {"garbage", "expired"} /\ r.status = 403 /\ r.msg = "Invalid token"

\* C17: a request to a list or task route is either one whose token
\* authenticateToken accepted, and then its handler runs as the user of the
\* token, or it was answered 401 (no token) or 403 (invalid or expired
\* token) and no handler ran; the rejection changes nothing in the store.
C17_HandlersBehindAuth ==
    /\ [](\A p \in Procs : req[p].op \in ProtectedOps =>
             IF req[p].auth = "jwt" THEN req[p].actor \in tokens
             ELSE Rejected(req[p]))
    /\ [][\A p \in Procs :
             req'[p] # req[p] /\ req'[p].op \in ProtectedOps /\ req'[p].auth # "jwt"
             => UNCHANGED store]_vars

\* A deleteTask with an expired token has been answered 403 while the store
\* holds a Task.
C17_Witness ==
    /\ req[1].op = "deleteTask" /\ req[1].auth = "expired" /\ Rejected(req[1])
    /\ tasks # {}

----
\* Partial profile updates

\* The body b of an updateUserProfile of user a carries no password and no
\* confirmPassword, and an email that is valid and no other User's.
PartialProfileBody(b, a) ==
    /\ b.password = Undef /\ b.confirmPassword = Undef
    /\ b.email # Undef /\ UserFieldError(b.email, Undef, FALSE) = ""
    /\ ~EmailIndexRefuses(users, a, b.email)

\* C18: an updateUserProfile of an existing user whose body carries neither
\* password nor confirmPassword, only a valid email, is not refused: the
\* request goes on to its update instead of being answered with an error.
C18_PartialUpdateAccepted ==
    [][\A p \in Procs :
         /\ req'[p] # req[p] /\ CanStart(p)
         /\ req'[p].op = "updateUserProfile"
         /\ req'[p].actor \in Ids(users)
         /\ PartialProfileBody(req'[p].body, req'[p].actor)
         => req'[p].pc = "update"]_vars

----
\* Unique email

\* A body whose password and confirmPassword are both given and equal, or,
\* where the credential may stay as it is, both left out.
PairOk(b, optional) ==
    \/ ~Falsy(b.password) /\ b.password = b.confirmPassword
    \/ optional /\ b.password = Undef /\ b.confirmPassword = Undef

\* A registerUser with a complete body and an email some User holds arrives
\* at p: it is answered 409 and no User and no List is created or changed.
DuplicateRegisterRefused(p) ==
    /\ req'[p] # req[p] /\ CanStart(p) /\ req'[p].op = "registerUser"
    /\ PairOk(req'[p].body, FALSE)
    /\ UserFieldError(req'[p].body.email, req'[p].body.password, TRUE) = ""
    /\ FindByEmail(req'[p].body.email) # {}
    => req'[p].status = 409 /\ users' = users /\ lists' = lists

\* An updateUserProfile of an existing user to an email another User holds
\* arrives at p: it is not refused for another reason, it goes on to its
\* write.
TakenEmailReachesWrite(p) ==
    /\ req'[p] # req[p] /\ CanStart(p) /\ req'[p].op = "updateUserProfile"
    /\ req'[p].actor \in Ids(users)
    /\ PairOk(req'[p].body, TRUE)
    /\ UserFieldError(req'[p].body.email, req'[p].body.password, FALSE) = ""
    /\ EmailIndexRefuses(users, req'[p].actor, req'[p].body.email)
    => req'[p].pc = "update" /\ users' = users /\ lists' = lists

\* The write of an updateUserProfile to an email another User holds is
\* answered 409 and changes no User and no List.
TakenEmailRefused(p) ==
    /\ req'[p] # req[p] /\ At(p, "updateUserProfile", "update")
    /\ req[p].actor \in Ids(users)
    /\ EmailIndexRefuses(users, req[p].actor, req[p].body.email)
    => req'[p].status = 409 /\ users' = users /\ lists' = lists

\* C19: no two Users ever have the same email; a registerUser with a
\* registered email, and an updateUserProfile to the email of another User,
\* end with 409 and create or change no User and no List, also when two
\* requests interleave.
C19_UniqueEmail ==
    /\ [](\A u, v \in users : u.email = v.email => u = v)
    /\ [][\A p \in Procs :
            /\ DuplicateRegisterRefused(p)
            /\ TakenEmailReachesWrite(p)
            /\ TakenEmailRefused(p)]_vars

----
\* Cascade order

\* The documents of coll that belong to user a.
OwnedBy(coll, a) == {d \in coll : d.user = a}

\* p is inside UserDAO.delete: after the handler's read, before its response.
InCascade(p) ==
    req[p].op = "deleteUser" /\ req[p].pc \in {"deleteLists", "deleteTasks", "deleteUser"}

\* C20: UserDAO.delete removes the Lists of the user, then the Tasks of the
\* user, then the User record: while one cascade runs alone, the User record
\* exists as long as a List or a Task of that user exists, the Lists are gone
\* before the Tasks are removed, and both are gone before the User is.
C20_CascadeOrder ==
    /\ [](\A p \in Procs : InCascade(p) =>
            /\ (OwnedBy(lists, req[p].actor) \cup OwnedBy(tasks, req[p].actor) # {}
                  => req[p].actor \in Ids(users))
            /\ (req[p].pc # "deleteLists" => OwnedBy(lists, req[p].actor) = {})
            /\ (req[p].pc = "deleteUser" => OwnedBy(tasks, req[p].actor) = {}))
    /\ [][\A p \in Procs : InCascade(p) /\ users' # users
            => /\ req[p].pc = "deleteUser"
               /\ OwnedBy(lists, req[p].actor) \cup OwnedBy(tasks, req[p].actor) = {}]_vars

\* A cascade between its two deleteMany: the Lists of the user are gone, a
\* Task of the user and the User record are still stored.
C20_Witness ==
    /\ At(1, "deleteUser", "deleteTasks")
    /\ req[1].deleted > 0
    /\ OwnedBy(tasks, req[1].actor) # {}
    /\ req[1].actor \in Ids(users)

----
\* Creator is the actor

\* C21: every List that createList inserts and every Task that createTask
\* inserts has user equal to the id of the authenticated actor, whatever
\* user the request body carries.
C21_CreatorIsActor ==
    [][\A p \in Procs :
         /\ (At(p, "createList", "create") /\ req'[p] # req[p]
               => \A l \in lists' \ lists : l.user = req[p].actor)
         /\ (At(p, "createTask", "create") /\ req'[p] # req[p]
               => \A t \in tasks' \ tasks : t.user = req[p].actor)]_vars

\* A createTask whose body names another user has stored its Task under the
\* actor.
C21_Witness ==
    /\ Done(1, "createTask") /\ req[1].status = 200
    /\ req[1].body.user \notin {0, req[1].actor}
    /\ \E t \in tasks : t.id = req[1].target /\ t.user = req[1].actor

----
\* Tasks only in the actor's own lists

\* Every Task that a step of createTask inserts goes into a List that, if it
\* exists, belongs to the actor.
CreatesInOwnList(p) ==
    req[p].op = "createTask" /\ req'[p] # req[p]
    => \A t \in tasks' \ tasks : \A l \in lists : l.id = t.list => l.user = req[p].actor

\* The step of p belongs to a createTask that names an existing List of
\* another user: the List is named as the request arrives.
OnForeignList(p) ==
    /\ req'[p] # req[p] /\ req'[p].op = "createTask"
    /\ LET r == IF CanStart(p) THEN req'[p] ELSE req[p]
       IN  \E l \in lists : l.id = r.target /\ l.user # r.actor

\* C22 as stated: every step of a createTask of any actor holding a token
\* that names an existing List of another user leaves the store as it is,
\* and the request ends with 403.
C22_ForeignListIs403_AnyActor ==
    [][\A p \in Procs :
          /\ CreatesInOwnList(p)
          /\ (OnForeignList(p)
              => /\ UNCHANGED store
                 /\ req'[p].pc = "done" => req'[p].status = 403)]_vars

\* C22 amended: the same for every actor whose User record exists; for every
\* actor holding a token the store is left as it is and the request never
\* ends with 200; and a Task is only ever inserted into a List of the actor.
C22_ForeignListIs403 ==
    [][\A p \in Procs :
          /\ CreatesInOwnList(p)
          /\ (OnForeignList(p)
              => /\ UNCHANGED store
                 /\ req'[p].pc = "done" => req'[p].status # 200
                 /\ req'[p].pc = "done" /\ req'[p].actor \in Ids(users)
                      => req'[p].status = 403)]_vars

\* A createTask on a List of another user has been answered 403 and the
\* store holds no Task.
C22_Witness ==
    /\ Done(1, "createTask") /\ req[1].status = 403
    /\ NamesForeign(req[1]) /\ req[1].actor \in Ids(users)
    /\ tasks = {}

----
\* deleteUser against concurrent creations

\* The document that the completed createList or createTask of p inserted.
Inserted(p) ==
    IF req[p].status # 200 THEN {}
    ELSE IF Done(p, "createList") THEN {l \in lists : l.id = req[p].target}
    ELSE IF Done(p, "createTask") THEN {t \in tasks : t.id = req[p].target}
    ELSE {}

\* C23: once every request has completed, the store holds no List and no
\* Task of a deleted user: what a createList or createTask inserted while a
\* deleteUser of its actor was running is gone with the user.
C23_NothingLeftOfDeletedUser ==
    (\A p \in Procs : ~InFlight(p)) =>
        \A p \in Procs : \A d \in Inserted(p) : d.user \in Ids(users)

----
\* Concurrent resets

\* C24: a reset token replaces the credential at most once: the save of a
\* resetPassword replaces the credential only while a User still holds the
\* token the request carries, so of two requests with the same token and
\* different new passwords that run at the same time, one at most gets to
\* replace the credential and answer 200.
C24_TokenConsumedOnce ==
    [][\A p \in Procs :
         At(p, "resetPassword", "save") /\ users' # users
         => Holders(req[p].body.token) # {}]_vars

----
\* Status enum

\* C25: every stored Task has status ongoing, unassigned or done, so that
\* the fourth bucket of getTasksByListOrdered stays empty: a createTask or
\* updateTask with another status value is answered 400 and stores nothing.
C25_StatusInEnum ==
    \A t \in tasks : t.status \in TaskStatuses /\ StatusOrder(t.status) # 3

----
\* Credential round trip

\* The completed request r was a successful registerUser, updateUserProfile
\* or resetPassword that carried a password.
SetsPassword(r) ==
    /\ r.pc = "done" /\ r.status \in {200, 201}
    /\ r.op \in {"registerUser", "updateUserProfile", "resetPassword"}
    /\ r.body.password # Undef

\* The user whose password r set.
SetUser(r) == IF r.op = "updateUserProfile" THEN r.actor ELSE r.target

\* C26: the loginUser that follows a successful registerUser,
\* updateUserProfile or resetPassword which set the password of a user to
\* p, with that user's email, answers 200 when it carries p and 401 when it
\* carries another password, the previous one included.
C26_CredentialRoundTrip ==
    [][\A p \in Procs :
         /\ SetsPassword(req[p])
         /\ req'[p] # req[p] /\ req'[p].op = "loginUser"
         /\ ~Falsy(req'[p].body.password)
         /\ \E u \in users : u.id = SetUser(req[p]) /\ u.email = req'[p].body.email
         => IF req'[p].body.password = req[p].body.password
            THEN req'[p].status = 200
            ELSE req'[p].status = 401]_vars

----
\* Tokens of deleted users

\* A request arrives at p with the token of a user whose record is gone.
ArrivesAsDeletedUser(p) ==
    /\ CanStart(p) /\ req'[p] # req[p]
    /\ req'[p].actor \in tokens /\ req'[p].actor \notin Ids(users)
    /\ req'[p].op = "updateUserProfile" => PairOk(req'[p].body, FALSE)

\* C27: a request that carries the token of a deleted user is answered 404
\* by whichever handler receives it, and changes nothing in the store.
C27_DeletedUserIs404 ==
    [][\A p \in Procs :
         ArrivesAsDeletedUser(p)
         => req'[p].pc = "done" /\ req'[p].status = 404 /\ UNCHANGED store]_vars

----
\* Isolation between users

ListTaskOps == ProtectedOps \cup {"getKanbanTasks"}

\* The elements of a sequence.
Range(seq) == {seq[i] : i \in DOMAIN seq}

\* The Tasks in the three columns of a getKanbanTasks response.
InColumns(result) == Range(result[1]) \cup Range(result[2]) \cup Range(result[3])

\* What the completed read r of its actor holds is made of the actor's own
\* documents, all of those the request asks for and no others.
OwnDocumentsOnly(r) ==
    CASE r.op = "getUserLists" -> Range(r.result) = OwnedBy(lists, r.actor)
      [] r.op = "getListTasks" ->
            /\ Range(r.result) = {t \in tasks : t.list = r.target}
            /\ Range(r.result) \subseteq OwnedBy(tasks, r.actor)
      [] r.op = "getKanbanTasks" ->
            InColumns(r.result) =
                {t \in OwnedBy(tasks, r.actor) : t.status \in TaskStatuses}
      [] OTHER -> TRUE

----
\* Failing email collaborator

\* The User document that the request r read and saved.
Saved(r) == {u \in users : u.id = r.target}

\* C29: a resetPassword or forgotPassword whose sendMail throws answers 500,
\* never 200, and what it saved before the dispatch stays: after
\* resetPassword the new credential, with token and expiry cleared; after
\* forgotPassword the token and its expiry, with which a resetPassword
\* arriving before the expiry goes on to its save.
C29_MailFailureKeepsSave ==
    /\ [](\A p \in Procs : req[p].mail = "failed" =>
            /\ req[p].pc = "done" /\ req[p].status = 500
            /\ Saved(req[p]) # {}
            /\ req[p].op = "resetPassword" =>
                 \A u \in Saved(req[p]) :
                    /\ u.password = PreSave(req[p].body.password)
                    /\ u.resetPasswordToken = Unset
                    /\ u.resetPasswordExpires = Unset
            /\ req[p].op = "forgotPassword" =>
                 \A u \in Saved(req[p]) :
                    /\ u.resetPasswordToken = req[p].body.token
                    /\ u.resetPasswordExpires # Unset)
    /\ [][\A p \in Procs :
            /\ req[p].mail = "failed" /\ req[p].op = "forgotPassword"
            /\ ResetArrives(p) /\ PairGiven(req'[p].body)
            /\ <<req'[p].body.token>> = req[p].body.token
            /\ \A u \in Saved(req[p]) : now < u.resetPasswordExpires[1]
            => req'[p].pc = "save" /\ req'[p].target = req[p].target]_vars

\* A resetPassword has been answered 500 because its mail failed, and the
\* User holds the new credential.
C29_Witness ==
    /\ Done(1, "resetPassword") /\ req[1].mail = "failed" /\ req[1].status = 500
    /\ \E u \in Saved(req[1]) : u.password = PreSave(req[1].body.password)

====
